---- MODULE Spec2Model ----
(***************************************************************************)
(* Model of librsvg's typed attribute parsing:                             *)
(*   rust/src/paint_server.rs        CoordUnits, PaintServerSpread         *)
(*   rust/src/property_bag.rs        lookup/dup/free, parse_or_*           *)
(*   rsvg_internals/src/coord_units.rs   CoordUnits, coord_units! macro    *)
(***************************************************************************)
EXTENDS Integers, Sequences, FiniteSets, TLC

VARIABLES
    bags,      \* handle -> [st, props]: the RsvgPropertyBag behind each pointer
    tables,    \* store  -> [alive, tbl]: the key/value storage a bag points to
    released,  \* handle -> number of times free() was called on it
    owned,     \* handles this core owns (given to it, or returned by dup)
    origin,    \* handle -> [from, seen]: source of a dup and its lookups then
    ret        \* the last call made and what it returned

vars == <<bags, tables, released, owned, origin, ret>>

----------------------------------------------------------------------------
(* Bounds *)

MaxHandles == 2
MaxRelease == 2
MaxTokens  == 2

----------------------------------------------------------------------------
(* Rust values *)

None    == [some |-> FALSE]
Some(v) == [some |-> TRUE, v |-> v]

Ok(v)  == [ok |-> TRUE, v |-> v]
Err(e) == [ok |-> FALSE, e |-> e]

\* No call made yet.
NoCall == [op |-> "none"]

----------------------------------------------------------------------------
(* rust/src/paint_server.rs *)

UserSpaceOnUse    == [ty |-> "CoordUnits", v |-> "UserSpaceOnUse"]
ObjectBoundingBox == [ty |-> "CoordUnits", v |-> "ObjectBoundingBox"]
CoordUnits        == {UserSpaceOnUse, ObjectBoundingBox}

ParseError_new(msg)      == [msg |-> msg]
AttributeError_Parse(pe) == [kind |-> "Parse", err |-> pe]

\* Faulty variant: keywords matched without regard to ASCII case or surrounding blanks.
CoordUnits_parse_lenient(s) ==
    IF s \in {"userSpaceOnUse", "userspaceonuse", "UserSpaceOnUse",
              " userSpaceOnUse", "userSpaceOnUse "}
      THEN Ok(UserSpaceOnUse)
    ELSE IF s \in {"objectBoundingBox", "OBJECTBOUNDINGBOX", "objectBoundingBox "}
      THEN Ok(ObjectBoundingBox)
    ELSE Err(AttributeError_Parse(ParseError_new(
               "expected 'userSpaceOnUse' or 'objectBoundingBox'")))

CoordUnits_parse(s) ==
    IF s = "userSpaceOnUse" THEN Ok(UserSpaceOnUse)
    ELSE IF s = "objectBoundingBox" THEN Ok(ObjectBoundingBox)
    ELSE Err(AttributeError_Parse(ParseError_new(
               "expected 'userSpaceOnUse' or 'objectBoundingBox'")))

CoordUnits_default == ObjectBoundingBox

\* cairo::enums::Extend
Extend == {"None", "Repeat", "Reflect", "Pad"}

PaintServerSpread(e) == [ty |-> "PaintServerSpread", v |-> e]

\* Faulty variant: the "reflect" and "repeat" arms share one mode.
PaintServerSpread_parse_merged(s) ==
    IF s = "pad" THEN Ok(PaintServerSpread("Pad"))
    ELSE IF s = "reflect" THEN Ok(PaintServerSpread("Repeat"))
    ELSE IF s = "repeat" THEN Ok(PaintServerSpread("Repeat"))
    ELSE Err(AttributeError_Parse(ParseError_new(
               "expected 'pad' | 'reflect' | 'repeat'")))

PaintServerSpread_parse(s) ==
    IF s = "pad" THEN Ok(PaintServerSpread("Pad"))
    ELSE IF s = "reflect" THEN Ok(PaintServerSpread("Reflect"))
    ELSE IF s = "repeat" THEN Ok(PaintServerSpread("Repeat"))
    ELSE Err(AttributeError_Parse(ParseError_new(
               "expected 'pad' | 'reflect' | 'repeat'")))

PaintServerSpread_default == PaintServerSpread("Pad")

\* Strings handed to the parsers: the keywords, case variants, keywords with
\* blanks around them, the empty string and unrelated words.
Strings ==
    {"", "foo", "foobar", "none",
     "userSpaceOnUse", "objectBoundingBox",
     "UserSpaceOnUse", "userspaceonuse", "OBJECTBOUNDINGBOX",
     " userSpaceOnUse", "userSpaceOnUse ", "objectBoundingBox ",
     "pad", "reflect", "repeat",
     "Pad", "REFLECT", " pad", "repeat ", "padreflect"}

----------------------------------------------------------------------------
(* rsvg_internals/src/coord_units.rs *)

\* cssparser tokens, as Parser::next() yields them (blanks already skipped).
Ident(s) == [t |-> "Ident", s |-> s]
Tokens ==
    {Ident(s) : s \in {"userSpaceOnUse", "objectBoundingBox", "foo"}}
      \cup {[t |-> "Number", s |-> "1"]}

SeqsUpTo(S, n) == UNION {[1..m -> S] : m \in 0..n}

\* A cssparser::Parser: its input and how many tokens were consumed.
Parsers ==
    UNION {{[input |-> i, position |-> n] : n \in 0..Len(i)}
             : i \in SeqsUpTo(Tokens, MaxTokens)}

\* parse_identifiers!(parser, str => val, ...): take the next token; an
\* identifier equal to one of the keywords gives its value, anything else
\* (and the end of the input) is an error.
parse_identifiers(parser, arms) ==
    IF parser.position >= Len(parser.input)
      THEN [r |-> Err([kind |-> "EndOfInput"]), parser |-> parser]
    ELSE
      LET token == parser.input[parser.position + 1]
          next  == [parser EXCEPT !.position = parser.position + 1]
          hits  == {i \in 1..Len(arms) :
                        token.t = "Ident" /\ token.s = arms[i][1]}
      IN  IF hits # {}
            THEN [r |-> Ok(arms[CHOOSE i \in hits : \A j \in hits : i <= j][2]),
                  parser |-> next]
            ELSE [r |-> Err([kind |-> "UnexpectedToken", token |-> token]),
                  parser |-> next]

CoordUnits_parse_to_parse_error(parser) ==
    parse_identifiers(parser,
        << <<"userSpaceOnUse", UserSpaceOnUse>>,
           <<"objectBoundingBox", ObjectBoundingBox>> >>)

\* coord_units!($name, $default): pub struct $name(pub CoordUnits)
Units(name, u) == [ty |-> name, v |-> u]

\* Faulty variant: the generated Default ignores $default.
Units_default_fixed(name, default) == Units(name, CoordUnits_default)

Units_default(name, default) == Units(name, default)

CoordUnits_from(u) == u.v

\* Faulty variant: an input that does not parse yields the configured default.
Units_parse_to_parse_error_defaulting(name, default, parser) ==
    LET p == CoordUnits_parse_to_parse_error(parser)
    IN  [r |-> IF p.r.ok THEN Ok(Units(name, p.r.v))
                         ELSE Ok(Units(name, default)),
         parser |-> p.parser]

Units_parse_to_parse_error(name, default, parser) ==
    LET p == CoordUnits_parse_to_parse_error(parser)
    IN  [r |-> IF p.r.ok THEN Ok(Units(name, p.r.v)) ELSE Err(p.r.e),
         parser |-> p.parser]

\* Invocations of coord_units!: the name and the default of each newtype.
UnitsNames == {"MyUnits", "OtherUnits"}

----------------------------------------------------------------------------
(* rust/src/property_bag.rs: the bag behind the pointer *)

Handles == 1..MaxHandles

\* Attribute names queried and attribute strings a bag may hold.
Keys       == {"gradientUnits", "spreadMethod"}
BagStrings == {"userSpaceOnUse", "pad", "foo", ""}

\* const char *: NULL or a NUL-terminated string.
NULL       == [null |-> TRUE]
CString(s) == [null |-> FALSE, s |-> s]
CStrs      == {NULL} \cup {CString(s) : s \in BagStrings}

AllTables == [Keys -> CStrs]

\* What freed memory may be read as.
Garbage       == {NULL, CString("foo")}
GarbageTables == [Keys -> Garbage]
NullTable == [k \in Keys |-> NULL]

NoBag   == [st |-> "unalloc", props |-> 0]
NoTable == [alive |-> FALSE, tbl |-> NullTable]

\* The pointer refers to a bag that was allocated and not freed, and so does
\* the bag's storage.
Valid(pbag) ==
    /\ bags[pbag].st = "live"
    /\ bags[pbag].props # 0
    /\ tables[bags[pbag].props].alive

\* Pointers the callers can hold: every bag that was ever handed out.
Held == {h \in Handles : bags[h].st # "unalloc"}

Unallocated == {h \in Handles : bags[h].st = "unalloc"}

\* rsvg_property_bag_lookup: the possible return values.  Reading through a
\* freed pointer is undefined: any pointer may come back.
rsvg_property_bag_lookup(pbag, key) ==
    IF Valid(pbag) THEN {tables[bags[pbag].props].tbl[key]} ELSE Garbage

\* Faulty variant: the new bag points to the storage of the old one.
rsvg_property_bag_dup_shallow(pbag) ==
    LET h == CHOOSE x \in Unallocated : \A y \in Unallocated : x <= y
    IN  {[ret    |-> h,
          bags   |-> [bags EXCEPT ![h] = [st |-> "live", props |-> bags[pbag].props]],
          tables |-> tables]}

\* rsvg_property_bag_dup: the possible outcomes, each the new pointer and the
\* heap after the call.  The new bag has storage of its own holding a copy of
\* every pair; copying from a freed bag is undefined and may copy anything.
rsvg_property_bag_dup(pbag) ==
    LET h == CHOOSE x \in Unallocated : \A y \in Unallocated : x <= y
        copies == IF Valid(pbag) THEN {tables[bags[pbag].props].tbl}
                                 ELSE GarbageTables
    IN  {[ret    |-> h,
          bags   |-> [bags EXCEPT ![h] = [st |-> "live", props |-> h]],
          tables |-> [tables EXCEPT ![h] = [alive |-> TRUE, tbl |-> t]]]
           : t \in copies}

\* rsvg_property_bag_free: the possible heaps after the call.  Freeing a live
\* bag destroys it and its storage.  Freeing it again is undefined: the heap
\* may be left as it is or the storage of any bag may be destroyed.
rsvg_property_bag_free(pbag) ==
    IF bags[pbag].st = "live"
      THEN {[bags   |-> [bags EXCEPT ![pbag].st = "freed"],
             tables |-> IF bags[pbag].props = 0 THEN tables
                        ELSE [tables EXCEPT ![bags[pbag].props] = NoTable]]}
      ELSE {[bags |-> bags, tables |-> tables]}
             \cup {[bags |-> bags, tables |-> [tables EXCEPT ![s] = NoTable]]
                     : s \in {x \in Handles : tables[x].alive}}

\* glib::translate::from_glib_none for Option<String>
from_glib_none(c_value) == IF c_value.null THEN None ELSE Some(c_value.s)

lookup(pbag, key) ==
    {from_glib_none(c_value) : c_value \in rsvg_property_bag_lookup(pbag, key)}

dup(pbag) == rsvg_property_bag_dup(pbag)

free(pbag) == rsvg_property_bag_free(pbag)

----------------------------------------------------------------------------
(* rust/src/property_bag.rs: parse_or_none, parse_or_default, parse_or_value *)

\* The types T the helpers are instantiated with, T::parse, T::default and
\* the values of T.  Both have Data = ().
Types == {"CoordUnits", "PaintServerSpread"}
Unit  == "()"

T_parse(T, s, data) ==
    IF T = "CoordUnits" THEN CoordUnits_parse(s) ELSE PaintServerSpread_parse(s)

T_default(T) ==
    IF T = "CoordUnits" THEN CoordUnits_default ELSE PaintServerSpread_default

T_values(T) ==
    IF T = "CoordUnits" THEN CoordUnits
                        ELSE {PaintServerSpread(e) : e \in Extend}

\* NodeError::attribute_error (key, e)
NodeError_attribute_error(key, e) == [attr_name |-> key, err |-> e]

\* Faulty variant: a value that does not parse is treated like a missing one.
parse_or_none_swallow(T, pbag, key, data) ==
    {IF value.some
       THEN LET p == T_parse(T, value.v, data)
            IN  IF p.ok THEN Ok(Some(p.v)) ELSE Ok(None)
       ELSE Ok(None)
      : value \in lookup(pbag, key)}

\* Faulty variant: a missing key is reported as an error.
parse_or_none_required(T, pbag, key, data) ==
    {IF value.some
       THEN LET p == T_parse(T, value.v, data)
            IN  IF p.ok THEN Ok(Some(p.v))
                        ELSE Err(NodeError_attribute_error(key, p.e))
       ELSE Err(NodeError_attribute_error(key,
                    AttributeError_Parse(ParseError_new("missing"))))
      : value \in lookup(pbag, key)}

\* The results parse_or_none can return (one, unless the pointer is stale).
parse_or_none(T, pbag, key, data) ==
    {IF value.some
       THEN LET p == T_parse(T, value.v, data)
            IN  IF p.ok THEN Ok(Some(p.v))
                        ELSE Err(NodeError_attribute_error(key, p.e))
       ELSE Ok(None)
      : value \in lookup(pbag, key)}

\* Faulty variant: a missing key yields T::default() instead of the value
\* the caller passed.
parse_or_value_default(T, pbag, key, data, value) ==
    {IF r.ok THEN (IF r.v.some THEN Ok(r.v.v) ELSE Ok(T_default(T)))
             ELSE Err(r.e)
      : r \in parse_or_none(T, pbag, key, data)}

parse_or_value(T, pbag, key, data, value) ==
    {IF r.ok THEN (IF r.v.some THEN Ok(r.v.v) ELSE Ok(value))
             ELSE Err(r.e)
      : r \in parse_or_none(T, pbag, key, data)}

\* Faulty variant: falls back to the first variant of T, not to T::default().
parse_or_default_first(T, pbag, key, data) ==
    parse_or_value(T, pbag, key, data,
        IF T = "CoordUnits" THEN UserSpaceOnUse ELSE PaintServerSpread("None"))

parse_or_default(T, pbag, key, data) ==
    parse_or_value(T, pbag, key, data, T_default(T))

----------------------------------------------------------------------------
(* Calls of the parsers and of the generated newtypes *)

InitHeapEmpty ==
    /\ bags = [h \in Handles |-> NoBag]
    /\ tables = [h \in Handles |-> NoTable]
    /\ released = [h \in Handles |-> 0]
    /\ owned = {}
    /\ origin = [h \in Handles |-> [from |-> 0, seen |-> [k \in Keys |-> None]]]

heap == <<bags, tables, released, owned, origin>>

InitParse == InitHeapEmpty /\ ret = NoCall

CallCoordUnitsParse ==
    \E s \in Strings :
        /\ ret' = [op |-> "CoordUnits::parse", s |-> s, r |-> CoordUnits_parse(s)]
        /\ UNCHANGED heap

CallPaintServerSpreadParse ==
    \E s \in Strings :
        /\ ret' = [op |-> "PaintServerSpread::parse", s |-> s,
                   r |-> PaintServerSpread_parse(s)]
        /\ UNCHANGED heap

CallUnitsDefault ==
    \E name \in UnitsNames, d \in CoordUnits :
        /\ ret' = [op |-> "Units::default", name |-> name, default |-> d,
                   r |-> Units_default(name, d)]
        /\ UNCHANGED heap

CallCoordUnitsFrom ==
    \E name \in UnitsNames, d \in CoordUnits, u \in CoordUnits :
        /\ ret' = [op |-> "CoordUnits::from", name |-> name, default |-> d,
                   u |-> Units(name, u), r |-> CoordUnits_from(Units(name, u))]
        /\ UNCHANGED heap

CallCoordUnitsParseToParseError ==
    \E parser \in Parsers :
        /\ ret' = [op |-> "CoordUnits::parse_to_parse_error", parser |-> parser,
                   out |-> CoordUnits_parse_to_parse_error(parser)]
        /\ UNCHANGED heap

CallUnitsParseToParseError ==
    \E name \in UnitsNames, d \in CoordUnits, parser \in Parsers :
        /\ ret' = [op |-> "Units::parse_to_parse_error", name |-> name,
                   default |-> d, parser |-> parser,
                   out |-> Units_parse_to_parse_error(name, d, parser)]
        /\ UNCHANGED heap

NextParse ==
    \/ CallCoordUnitsParse
    \/ CallPaintServerSpreadParse
    \/ CallUnitsDefault
    \/ CallCoordUnitsFrom
    \/ CallCoordUnitsParseToParseError
    \/ CallUnitsParseToParseError

SpecParse == InitParse /\ [][NextParse]_vars

----------------------------------------------------------------------------
(* Claims about the parsers (checked under SpecParse) *)

IsParseError(r) == ~r.ok /\ r.e.kind = "Parse"

\* C7: CoordUnits::parse gives UserSpaceOnUse for exactly "userSpaceOnUse",
\* ObjectBoundingBox for exactly "objectBoundingBox", and a parse error for
\* every other string (the empty string, other words, case variants and
\* keywords with blanks around them).
C7_CoordUnitsParseExact ==
    ret.op = "CoordUnits::parse" =>
        /\ ret.s = "userSpaceOnUse" => ret.r = Ok(UserSpaceOnUse)
        /\ ret.s = "objectBoundingBox" => ret.r = Ok(ObjectBoundingBox)
        /\ ret.s \notin {"userSpaceOnUse", "objectBoundingBox"}
             => IsParseError(ret.r)

C7_Witness ==
    /\ ret.op = "CoordUnits::parse"
    /\ ret.s = "userSpaceOnUse "
    /\ ~ret.r.ok

\* C8: PaintServerSpread::parse gives Pad, Reflect, Repeat for exactly "pad",
\* "reflect", "repeat" (distinct keywords give distinct modes) and a parse
\* error for every other string.
C8_SpreadParseExact ==
    ret.op = "PaintServerSpread::parse" =>
        /\ ret.s = "pad" => ret.r = Ok(PaintServerSpread("Pad"))
        /\ ret.s = "reflect" => ret.r = Ok(PaintServerSpread("Reflect"))
        /\ ret.s = "repeat" => ret.r = Ok(PaintServerSpread("Repeat"))
        /\ ret.s \notin {"pad", "reflect", "repeat"} => IsParseError(ret.r)
        /\ \A s2 \in {"pad", "reflect", "repeat"} :
              (ret.r.ok /\ PaintServerSpread_parse(s2) = ret.r) => s2 = ret.s

C8_Witness ==
    /\ ret.op = "PaintServerSpread::parse"
    /\ ret.s = "reflect"
    /\ ret.r = Ok(PaintServerSpread("Reflect"))

\* C9: for a newtype generated with default d, Name::default() is Name(d) and
\* converts back to d; CoordUnits::from(Name(u)) is u for every u.
C9_UnitsDefaultAndFrom ==
    /\ ret.op = "Units::default" =>
          /\ ret.r = Units(ret.name, ret.default)
          /\ CoordUnits_from(ret.r) = ret.default
    /\ ret.op = "CoordUnits::from" =>
          /\ ret.r \in CoordUnits
          /\ ret.u = Units(ret.name, ret.r)

C9_Witness ==
    /\ ret.op = "Units::default"
    /\ ret.default = UserSpaceOnUse
    /\ ret.r = Units(ret.name, UserSpaceOnUse)

\* C10: the parser of a generated newtype succeeds exactly when the parser of
\* CoordUnits succeeds on the same input, then gives the wrapper around the
\* same variant, and otherwise fails with the same error; the configured
\* default plays no part.
C10_UnitsParseDelegates ==
    ret.op = "Units::parse_to_parse_error" =>
        LET c == CoordUnits_parse_to_parse_error(ret.parser)
        IN  /\ ret.out.r.ok = c.r.ok
            /\ c.r.ok => ret.out.r.v = Units(ret.name, c.r.v)
            /\ ~c.r.ok => ret.out.r = c.r
            /\ ret.out.parser = c.parser

C10_Witness ==
    /\ ret.op = "Units::parse_to_parse_error"
    /\ ret.default = UserSpaceOnUse
    /\ ret.parser.position < Len(ret.parser.input)
    /\ ret.parser.input[ret.parser.position + 1] = Ident("foo")
    /\ ~ret.out.r.ok

----------------------------------------------------------------------------
(* Calls of the resolution helpers on the bag of an element *)

\* The element's bag, populated by the markup parser, and a pointer to a bag
\* that was freed earlier.
InitResolve ==
    /\ \E t \in AllTables :
          /\ bags = [h \in Handles |->
                        IF h = 1 THEN [st |-> "live", props |-> 1]
                        ELSE IF h = 2 THEN [st |-> "freed", props |-> 2]
                        ELSE NoBag]
          /\ tables = [h \in Handles |->
                        IF h = 1 THEN [alive |-> TRUE, tbl |-> t] ELSE NoTable]
    /\ released = [h \in Handles |-> IF h = 2 THEN 1 ELSE 0]
    /\ owned = {}
    /\ origin = [h \in Handles |-> [from |-> 0, seen |-> [k \in Keys |-> None]]]
    /\ ret = NoCall

CallParseOrNone ==
    \E T \in Types, pbag \in Held, key \in Keys :
      \E r \in parse_or_none(T, pbag, key, Unit) :
        /\ ret' = [op |-> "parse_or_none", T |-> T, pbag |-> pbag, key |-> key,
                   value |-> T_default(T), r |-> r]
        /\ UNCHANGED heap

CallParseOrDefault ==
    \E T \in Types, pbag \in Held, key \in Keys :
      \E r \in parse_or_default(T, pbag, key, Unit) :
        /\ ret' = [op |-> "parse_or_default", T |-> T, pbag |-> pbag,
                   key |-> key, value |-> T_default(T), r |-> r]
        /\ UNCHANGED heap

CallParseOrValue ==
    \E T \in Types, pbag \in Held, key \in Keys :
      \E value \in T_values(T) :
        \E r \in parse_or_value(T, pbag, key, Unit, value) :
          /\ ret' = [op |-> "parse_or_value", T |-> T, pbag |-> pbag,
                     key |-> key, value |-> value, r |-> r]
          /\ UNCHANGED heap

NextResolve ==
    \/ CallParseOrNone
    \/ CallParseOrDefault
    \/ CallParseOrValue

SpecResolve == InitResolve /\ [][NextResolve]_vars

----------------------------------------------------------------------------
(* Calls of lookup, dup and free *)

\* One bag, populated by the markup parser, that this core was given
\* ownership of.
InitBag ==
    /\ \E t \in AllTables :
          /\ bags = [h \in Handles |->
                        IF h = 1 THEN [st |-> "live", props |-> 1] ELSE NoBag]
          /\ tables = [h \in Handles |->
                        IF h = 1 THEN [alive |-> TRUE, tbl |-> t] ELSE NoTable]
    /\ released = [h \in Handles |-> 0]
    /\ owned = {1}
    /\ origin = [h \in Handles |-> [from |-> 0, seen |-> [k \in Keys |-> None]]]
    /\ ret = NoCall

Lookup ==
    \E pbag \in Held, key \in Keys :
      \E r \in lookup(pbag, key) :
        /\ ret' = [op |-> "lookup", pbag |-> pbag, key |-> key, r |-> r]
        /\ UNCHANGED heap

Dup ==
    \E pbag \in Held :
      /\ Unallocated # {}
      /\ \E o \in dup(pbag) :
            /\ bags' = o.bags
            /\ tables' = o.tables
            /\ owned' = owned \cup {o.ret}
            /\ origin' =
                 IF Valid(pbag)
                   THEN [origin EXCEPT ![o.ret] =
                           [from |-> pbag,
                            seen |-> [k \in Keys |->
                                        CHOOSE v \in lookup(pbag, k) : TRUE]]]
                   ELSE origin
            /\ ret' = [op |-> "dup", pbag |-> pbag, r |-> o.ret]
      /\ UNCHANGED released

Free ==
    \E pbag \in Held :
      /\ released[pbag] < MaxRelease
      /\ \E o \in free(pbag) :
            /\ bags' = o.bags
            /\ tables' = o.tables
      /\ released' = [released EXCEPT ![pbag] = @ + 1]
      /\ ret' = [op |-> "free", pbag |-> pbag]
      /\ UNCHANGED <<owned, origin>>

NextBag ==
    \/ Lookup
    \/ Dup
    \/ Free

SpecBag == InitBag /\ [][NextBag]_vars

----------------------------------------------------------------------------
(* Claims about the resolution helpers (checked under SpecResolve) *)

Helpers == {"parse_or_none", "parse_or_default", "parse_or_value"}

\* What the bag of the last call holds for the key of the last call.
Stored  == tables[bags[ret.pbag].props].tbl[ret.key]
Present == Valid(ret.pbag) /\ ~Stored.null
Absent  == Valid(ret.pbag) /\ Stored.null

\* C1: each helper, when the key is present and its value does not parse as
\* T, returns an attribute error naming the key that was queried, never
\* None, T::default() or the caller's fallback.
C1_InvalidValueIsKeyedError ==
    (ret.op \in Helpers /\ Present /\ ~T_parse(ret.T, Stored.s, Unit).ok) =>
        /\ ~ret.r.ok
        /\ ret.r.e.attr_name = ret.key
        /\ ret.r.e.err = T_parse(ret.T, Stored.s, Unit).e

C1_Witness ==
    /\ ret.op = "parse_or_default"
    /\ Present
    /\ Stored.s = "foo"
    /\ ~ret.r.ok
    /\ ret.r.e.attr_name = "spreadMethod"

\* C2: parse_or_none returns Ok(None) when the key is absent, and
\* Ok(Some(v)) with v the parser's result for the stored string when the key
\* is present and the string parses.
C2_ParseOrNone ==
    ret.op = "parse_or_none" =>
        /\ Absent => ret.r = Ok(None)
        /\ (Present /\ T_parse(ret.T, Stored.s, Unit).ok) =>
              ret.r = Ok(Some(T_parse(ret.T, Stored.s, Unit).v))

C2_Witness ==
    /\ ret.op = "parse_or_none"
    /\ Absent
    /\ ret.r = Ok(None)

\* C3: parse_or_value on an absent key returns Ok(value) with the value the
\* caller passed, also when that value is not T::default().
C3_ParseOrValueFallback ==
    (ret.op = "parse_or_value" /\ Absent) => ret.r = Ok(ret.value)

C3_Witness ==
    /\ ret.op = "parse_or_value"
    /\ Absent
    /\ ret.value # T_default(ret.T)
    /\ ret.r = Ok(ret.value)

\* C4: parse_or_default on an absent key returns Ok(T::default()), which is
\* ObjectBoundingBox for CoordUnits and Pad for PaintServerSpread; whatever
\* the bag and the key, its result is a result of parse_or_value called with
\* T::default().
C4_ParseOrDefault ==
    ret.op = "parse_or_default" =>
        /\ (Absent /\ ret.T = "CoordUnits") => ret.r = Ok(ObjectBoundingBox)
        /\ (Absent /\ ret.T = "PaintServerSpread") =>
              ret.r = Ok(PaintServerSpread("Pad"))
        /\ ret.r \in parse_or_value(ret.T, ret.pbag, ret.key, Unit,
                                    T_default(ret.T))

C4_Witness ==
    /\ ret.op = "parse_or_default"
    /\ Absent
    /\ ret.T = "PaintServerSpread"
    /\ ret.r = Ok(PaintServerSpread("Pad"))

----------------------------------------------------------------------------
(* Claims about the bag handles (checked under SpecBag) *)

\* No pointer was freed twice, so nothing undefined has been done to the heap.
NoDoubleFree == \A h \in Handles : released[h] <= 1

Duplicates == {d \in Handles : origin[d].from # 0}

\* C5: a bag obtained from dup answers every lookup as the original did when
\* it was duplicated, whether or not the original has been freed since, for
\* as long as the duplicate itself is not freed.
C5_DuplicateOutlivesOriginal ==
    NoDoubleFree =>
        \A d \in Duplicates :
            bags[d].st = "live" =>
                /\ \A k \in Keys : lookup(d, k) = {origin[d].seen[k]}
                /\ (ret.op = "lookup" /\ ret.pbag = d) =>
                      ret.r = origin[d].seen[ret.key]

C5_Witness ==
    /\ NoDoubleFree
    /\ ret.op = "lookup"
    /\ ret.pbag \in Duplicates
    /\ bags[ret.pbag].st = "live"
    /\ bags[origin[ret.pbag].from].st = "freed"
    /\ ret.r = Some("pad")

\* C6: every bag this core owns is freed exactly once on every path, which
\* the code enforces by construction; in particular no reachable run frees
\* an owned bag twice.
C6_OwnedFreedAtMostOnce ==
    \A h \in owned : released[h] <= 1

====
